---- MODULE Spec2Model ----
(***************************************************************************)
(* A model of imdb_assetscraper: the page retrieval with its file cache    *)
(* (IMDBAssetScraper.get_webcontent_4_imdb_movie) as a state machine, and  *)
(* the field extraction routines as operators over an abstract document.   *)
(* Text is modelled with TLA+ strings; Python's str methods used by the    *)
(* code (split, replace, strip, int, float) are operators below.           *)
(***************************************************************************)
EXTENDS Integers, Sequences, FiniteSets, TLC

VARIABLES
    cache,           \* dir_cache: imdb_movie_id -> the file <id>.imdb_movie
    web,             \* the revision of the pages the website serves now
    pc,              \* position inside get_webcontent_4_imdb_movie
    call,            \* arguments of the running (or last) call
    website_string,  \* the local variable of that name (bytes)
    reqs,            \* URLs requested by the running (or last) call, in order
    ret,             \* outcome of the last call
    cache0,          \* dir_cache as it was when the last call started
    lastOK,          \* per id: the text the last successful call returned
    op,              \* extraction routine applied last
    input,           \* its argument (a document, or a descriptor string)
    out              \* its outcome

vars == <<cache, web, pc, call, website_string, reqs, ret, cache0, lastOK,
          op, input, out>>

(***************************************************************************)
(* Bounds of the model.                                                    *)
(***************************************************************************)
MaxId == 2
MaxRevision == 2

(***************************************************************************)
(* Outcomes of a Python call: a returned value or a raised exception.      *)
(***************************************************************************)
Ok(v) == [exc |-> "", val |-> v]
Raise(e) == [exc |-> e, val |-> <<>>]
IsOk(r) == r.exc = ""

\* Optional[...]: None is <<>>, a present value v is <<v>>.
None == <<>>
Some(v) == <<v>>

(***************************************************************************)
(* Python str methods.                                                     *)
(***************************************************************************)
CharAt(s, i) == SubSeq(s, i, i)

StartsWithAt(s, p, i) == i + Len(p) - 1 <= Len(s) /\ SubSeq(s, i, i + Len(p) - 1) = p

\* str.find: the first index >= i at which sub occurs in s, 0 when none.
RECURSIVE FindFrom(_, _, _)
FindFrom(s, sub, i) ==
    IF i + Len(sub) - 1 > Len(s) THEN 0
    ELSE IF StartsWithAt(s, sub, i) THEN i
    ELSE FindFrom(s, sub, i + 1)

\* sub in s
Contains(s, sub) == FindFrom(s, sub, 1) # 0

\* str.split(sep): the pieces of s between the occurrences of sep.
RECURSIVE Split(_, _)
Split(s, sep) ==
    LET i == FindFrom(s, sep, 1)
    IN IF i = 0 THEN <<s>>
       ELSE <<SubSeq(s, 1, i - 1)>> \o Split(SubSeq(s, i + Len(sep), Len(s)), sep)

\* str.replace(old, new): every non-overlapping occurrence, left to right.
RECURSIVE Replace(_, _, _)
Replace(s, old, new) ==
    LET i == FindFrom(s, old, 1)
    IN IF i = 0 THEN s
       ELSE SubSeq(s, 1, i - 1) \o new \o Replace(SubSeq(s, i + Len(old), Len(s)), old, new)

IsSpace(c) == c \in {" ", "\n", "\t"}

RECURSIVE LStrip(_)
LStrip(s) == IF Len(s) > 0 /\ IsSpace(CharAt(s, 1)) THEN LStrip(SubSeq(s, 2, Len(s))) ELSE s

RECURSIVE RStrip(_)
RStrip(s) ==
    IF Len(s) > 0 /\ IsSpace(CharAt(s, Len(s))) THEN RStrip(SubSeq(s, 1, Len(s) - 1)) ELSE s

\* str.strip()
Strip(s) == RStrip(LStrip(s))

EndsWith(s, suf) == Len(suf) <= Len(s) /\ SubSeq(s, Len(s) - Len(suf) + 1, Len(s)) = suf

Digits == <<"0", "1", "2", "3", "4", "5", "6", "7", "8", "9">>
IsDigit(c) == \E d \in 1..10 : Digits[d] = c
DigitVal(c) == (CHOOSE d \in 1..10 : Digits[d] = c) - 1

AllDigits(s) == Len(s) > 0 /\ \A i \in 1..Len(s) : IsDigit(CharAt(s, i))

RECURSIVE DigitsVal(_)
DigitsVal(s) ==
    IF Len(s) = 0 THEN 0
    ELSE 10 * DigitsVal(SubSeq(s, 1, Len(s) - 1)) + DigitVal(CharAt(s, Len(s)))

\* int(s): surrounding whitespace is ignored, then an optional sign and decimal
\* digits; anything else raises ValueError.
PyInt(s) ==
    LET t == Strip(s)
        neg == Len(t) > 0 /\ CharAt(t, 1) = "-"
        body == IF Len(t) > 0 /\ CharAt(t, 1) \in {"-", "+"} THEN SubSeq(t, 2, Len(t)) ELSE t
    IN IF AllDigits(body)
       THEN Ok(IF neg THEN 0 - DigitsVal(body) ELSE DigitsVal(body))
       ELSE Raise("ValueError")

\* str(n) for n >= 0
RECURSIVE Str(_)
Str(n) == IF n < 10 THEN Digits[n + 1] ELSE Str(n \div 10) \o Digits[(n % 10) + 1]

\* str.zfill(width)
RECURSIVE ZFill(_, _)
ZFill(s, width) == IF Len(s) >= width THEN s ELSE ZFill("0" \o s, width)

(***************************************************************************)
(* get_webcontent_4_imdb_movie                                             *)
(***************************************************************************)
Ids == 1..MaxId
Revisions == 0..MaxRevision

URL_BASE == "https://imdb.com/title/tt"

SUB_SITES == <<"parentalguide", "fullcredits", "awards", "business", "companycredits",
               "technical", "keywords", "plotsummary">>

UrlMovie(id) == URL_BASE \o ZFill(Str(id), 7) \o "/"
UrlSub(id, k) == UrlMovie(id) \o SUB_SITES[k] \o "/"

\* The URLs a complete retrieval requests, in order.
AllUrls(id) == <<UrlMovie(id)>> \o [k \in 1..Len(SUB_SITES) |-> UrlSub(id, k)]

\* The body the website serves for page k (0: the main page) of a title at a
\* revision: UTF-8 bytes, with one two-byte character; revision 0 serves empty bodies.
Body(id, k, rev) == IF rev = 0 THEN <<>> ELSE <<48 + id, 97 + k, 195, 160 + rev>>

\* The bytes of a complete retrieval.
RECURSIVE Pages(_, _, _)
Pages(id, k, rev) == IF k = 0 THEN Body(id, 0, rev) ELSE Pages(id, k - 1, rev) \o Body(id, k, rev)

NoFile == [exists |-> FALSE, data |-> <<>>]
File(b) == [exists |-> TRUE, data |-> b]

\* bytes.decode("utf-8") on one- and two-byte sequences: the code points.
RECURSIVE Decode(_)
Decode(b) ==
    IF Len(b) = 0 THEN <<>>
    ELSE IF b[1] < 128 THEN <<b[1]>> \o Decode(Tail(b))
    ELSE <<(b[1] - 192) * 64 + (b[2] - 128)>> \o Decode(Tail(Tail(b)))

NoCall == [id |-> 0, use_cache |-> FALSE, k |-> 0]
NoRet == [status |-> "none", val |-> <<>>]

InitFetch ==
    /\ cache \in [Ids -> {NoFile, File(<<>>), File(<<104, 105>>)}]
    /\ web \in Revisions
    /\ pc = "idle"
    /\ call = NoCall
    /\ website_string = <<>>
    /\ reqs = <<>>
    /\ ret = NoRet
    /\ cache0 = cache
    /\ lastOK = [i \in Ids |-> None]
    /\ op = "" /\ input = <<>> /\ out = <<>>

\* Between calls the website may publish another revision of its pages (one call
\* is served from one revision).
SiteUpdate ==
    /\ pc = "idle"
    /\ \E r \in Revisions : r # web /\ web' = r
    /\ UNCHANGED <<cache, pc, call, website_string, reqs, ret, cache0, lastOK, op, input, out>>

\* The bytes file_path.read_bytes() yields under use_cache, b"" otherwise and on
\* FileNotFoundError.
CachedBytes(id, use_cache) ==
    IF use_cache /\ cache[id].exists THEN cache[id].data ELSE <<>>

MustRetrieve_always(ws, use_cache) == TRUE

\* The condition of the retrieval branch.
MustRetrieve(ws, use_cache) == ws = <<>> \/ ~use_cache

\* Entry, the cache lookup and the branch on its result.
Call(id, use_cache) ==
    /\ pc = "idle"
    /\ call' = [id |-> id, use_cache |-> use_cache, k |-> 0]
    /\ cache0' = cache
    /\ reqs' = <<>>
    /\ ret' = NoRet
    /\ website_string' = CachedBytes(id, use_cache)
    /\ pc' = IF MustRetrieve(website_string', use_cache) THEN "main" ELSE "return"
    /\ UNCHANGED <<cache, web, lastOK, op, input, out>>

\* opener.open(Request(url_movie)).read()
FetchMain ==
    /\ pc = "main"
    /\ reqs' = Append(reqs, UrlMovie(call.id))
    /\ website_string' = Body(call.id, 0, web)
    /\ call' = [call EXCEPT !.k = 1]
    /\ pc' = "sub"
    /\ UNCHANGED <<cache, web, ret, cache0, lastOK, op, input, out>>

\* One iteration of the loop over the sub sites.
FetchSub ==
    /\ pc = "sub"
    /\ call.k <= Len(SUB_SITES)
    /\ reqs' = Append(reqs, UrlSub(call.id, call.k))
    /\ website_string' = website_string \o Body(call.id, call.k, web)
    /\ call' = [call EXCEPT !.k = call.k + 1]
    /\ pc' = IF call.k = Len(SUB_SITES) THEN "write" ELSE "sub"
    /\ UNCHANGED <<cache, web, ret, cache0, lastOK, op, input, out>>

\* opener.open raises (URLError, HTTPError): the call ends before write_bytes.
FetchFails ==
    /\ pc \in {"main", "sub"}
    /\ reqs' = Append(reqs, IF pc = "main" THEN UrlMovie(call.id)
                                           ELSE UrlSub(call.id, call.k))
    /\ ret' = [status |-> "raise", val |-> <<>>]
    /\ pc' = "idle"
    /\ UNCHANGED <<cache, web, call, website_string, cache0, lastOK, op, input, out>>

Written_skipped(c, id, ws) == c

\* The file write_bytes leaves for the id of the call.
Written(c, id, ws) == [c EXCEPT ![id] = File(ws)]

WriteCache ==
    /\ pc = "write"
    /\ cache' = Written(cache, call.id, website_string)
    /\ pc' = "return"
    /\ UNCHANGED <<web, call, website_string, reqs, ret, cache0, lastOK, op, input, out>>

Return ==
    /\ pc = "return"
    /\ ret' = [status |-> "ok", val |-> Decode(website_string)]
    /\ lastOK' = [lastOK EXCEPT ![call.id] = Some(Decode(website_string))]
    /\ pc' = "idle"
    /\ UNCHANGED <<cache, web, call, website_string, reqs, cache0, op, input, out>>

NextFetch ==
    \/ SiteUpdate
    \/ \E id \in Ids, use_cache \in BOOLEAN : Call(id, use_cache)
    \/ FetchMain
    \/ FetchSub
    \/ FetchFails
    \/ WriteCache
    \/ Return

SpecFetch == InitFetch /\ [][NextFetch]_vars

(***************************************************************************)
(* The field extraction routines.  A document is a record of what the      *)
(* selectors of the routines find in it, in document order.                *)
(***************************************************************************)
MaxDecor == 2
MaxSpans == 2
MaxItems == 2

SeqsUpTo(S, n) == UNION {[1..k -> S] : k \in 0..n}

Last(s) == s[Len(s)]

RECURSIVE MaxOf(_)
MaxOf(s) == IF Len(s) = 1 THEN s[1]
            ELSE LET m == MaxOf(Tail(s)) IN IF s[1] >= m THEN s[1] ELSE m

\* The first raised outcome of a sequence of outcomes, or Ok of their values.
FirstRaise(rs) ==
    IF \E i \in 1..Len(rs) : ~IsOk(rs[i])
    THEN rs[CHOOSE i \in 1..Len(rs) : ~IsOk(rs[i]) /\ \A j \in 1..(i - 1) : IsOk(rs[j])]
    ELSE Ok([i \in 1..Len(rs) |-> rs[i].val])

(* _parse_year *)
_parse_year_first_group(raw_str) ==
    LET groups == Split(raw_str, "(")
    IN PyInt(Replace(Split(groups[IF Len(groups) > 1 THEN 2 ELSE 1], ")")[1], "Video ", ""))

_parse_year(raw_str) ==
    LET content_last_brackets == Split(Last(Split(raw_str, "(")), ")")[1]
    IN PyInt(Replace(content_last_brackets, "Video ", ""))

(* _parse_year_from_soup: og_title is the content of the og:title meta tag, None
   when the document has none (subscripting None raises TypeError). *)
_parse_year_from_soup(doc) ==
    IF doc.og_title = None THEN Raise("TypeError") ELSE _parse_year(doc.og_title[1])

(* _parse_titel_orig *)
_parse_titel_orig(doc) ==
    IF doc.og_title = None THEN Raise("Exception")
    ELSE Ok(Strip(Split(doc.og_title[1], "(")[1]))

(* _parse_runtime_from_soup.  doc.spans: the strings of the span elements. *)
\* re.compile('\(\d*\smin\)').search(text)
MatchesRuntime(text) ==
    \E i \in 1..Len(text) : \E j \in (i + 1)..Len(text) :
        /\ CharAt(text, i) = "("
        /\ \A k \in (i + 1)..(j - 1) : IsDigit(CharAt(text, k))
        /\ IsSpace(CharAt(text, j))
        /\ StartsWithAt(text, "min)", j + 1)

\* int(result.text.split(' min').pop(0)[1:])
RuntimeOf(text) == LET head == Split(text, " min")[1] IN PyInt(SubSeq(head, 2, Len(head)))

\* max(search): ValueError on an empty sequence.
PyMax(search) == IF Len(search) = 0 THEN Raise("ValueError") ELSE Ok(Some(MaxOf(search)))

_parse_runtime_from_soup(doc) ==
    LET search_raw == SelectSeq(doc.spans, MatchesRuntime)
        search == FirstRaise([i \in 1..Len(search_raw) |-> RuntimeOf(search_raw[i])])
    IN IF IsOk(search) THEN PyMax(search.val) ELSE search

(* ParserFSK.parse / _parse_fsk_from_soup.  doc.li: the li elements, each with
   whether it carries data-testid="certificates-item", its text before its first
   anchor, that anchor's text (None: the li holds no anchor) and its text after. *)
RowText(row) == row.pre \o (IF row.a = None THEN "" ELSE row.a[1]) \o row.post

\* row.find_next('a'): the first anchor at or after the row, in document order.
FindNextA(li, i) ==
    IF \E j \in i..Len(li) : li[j].a # None
    THEN li[CHOOSE j \in i..Len(li) : li[j].a # None /\ \A k \in i..(j - 1) : li[k].a = None].a
    ELSE None

\* find_all('li', attrs={'data-testid': 'certificates-item'}): indices of the rows.
CertificateRows(li) == {i \in 1..Len(li) : li[i].testid}

ParserFSK_parse(doc) ==
    LET res == CertificateRows(doc.li)
        german == {i \in res : Contains(RowText(doc.li[i]), "Germany")}
    IN IF german = {} THEN Ok(99)
       ELSE LET i == CHOOSE x \in german : \A y \in german : x <= y
                a == FindNextA(doc.li, i)
            IN IF a = None THEN Raise("AttributeError") ELSE PyInt(a[1])

(* _parse_fsk_from_soup: fsk is the German required age to access an asset. *)
_parse_fsk_from_soup(doc) == ParserFSK_parse(doc)

(* _parse_budget_from_soup.  doc.budget: None when no li with
   data-testid="title-boxoffice-budget" exists, else the text of its div
   (None when the li has no div). *)
BudgetInt(budget_raw_content) ==
    PyInt(Strip(Replace(Replace(Replace(Replace(budget_raw_content, "$", ""), "€", ""),
                                ",", ""), "(estimated)", "")))

_parse_budget_from_soup(doc) ==
    IF doc.budget = None THEN Ok(None)
    ELSE IF doc.budget[1] = None THEN Raise("AttributeError")
    ELSE LET r == BudgetInt(Strip(doc.budget[1][1]))
         IN \* except TypeError: int(str) raises ValueError, which is not caught
            IF r.exc = "TypeError" THEN Ok(None)
            ELSE IF IsOk(r) THEN Ok(Some(r.val)) ELSE r

(* _parse_credits_from_soup.  doc.credits: None when no div with
   id="fullcredits_content" exists, else the table of class cast_list inside it:
   None, or the href values of its anchors.  doc.directors: None when no h4
   "Directed by" exists, else the href values of the anchors of the tbody that
   follows it. *)
\* re.compile('/name/nm+.').search(href)
MatchesName(href) ==
    \E i \in 1..Len(href) : StartsWithAt(href, "/name/nm", i) /\ i + 8 <= Len(href)

EveryOther_all(res) == res

\* res[::2]
EveryOther(res) == [k \in 1..((Len(res) + 1) \div 2) |-> res[2 * k - 1]]

\* int(chunk.attrs.get("href", "").split("/")[2][2:])
ActorId(href) ==
    LET parts == Split(href, "/")
    IN IF Len(parts) < 3 THEN Raise("IndexError")
       ELSE PyInt(SubSeq(parts[3], 3, Len(parts[3])))

\* re.findall('name/nm.*/', href)[0][7:-1]: from "name/nm" to the last "/".
DirectorId(href) ==
    LET i == FindFrom(href, "name/nm", 1)
        ends == {j \in 1..Len(href) : i # 0 /\ j >= i + 7 /\ CharAt(href, j) = "/"}
    IN IF ends = {} THEN Raise("IndexError")
       ELSE Ok(SubSeq(href, i + 7, (CHOOSE j \in ends : \A k \in ends : k <= j) - 1))

_parse_credits_from_soup(doc) ==
    LET actors ==
            IF doc.credits # None /\ doc.credits[1] # None
            THEN LET res == SelectSeq(doc.credits[1][1], MatchesName)
                     picked == EveryOther(res)
                 IN FirstRaise([k \in 1..Len(picked) |-> ActorId(picked[k])])
            ELSE Ok(<<>>)
        directors ==
            IF doc.directors = None THEN Ok(<<>>)
            ELSE FirstRaise([k \in 1..Len(doc.directors[1]) |-> DirectorId(doc.directors[1][k])])
    IN IF ~IsOk(actors) THEN actors
       ELSE IF ~IsOk(directors) THEN directors
       ELSE IF directors.val = <<>> THEN Ok("actor" :> actors.val)
       ELSE Ok(("actor" :> actors.val) @@ ("director" :> directors.val))

(* _parse_awards_from_soup.  doc.awards: the tables of class awards, each the
   sequence of its td cells; a cell has its first class, the text of its b and
   span children and its own text. *)
Truthy(x) == x # None /\ x # Some("")

\* awards.setdefault(category, []).append(entry)
SetDefaultAppend(awards, category, entry) ==
    IF category \in DOMAIN awards
    THEN [awards EXCEPT ![category] = Append(@, entry)]
    ELSE awards @@ (category :> <<entry>>)

TableStart_carried(st) == st

\* award_outcome_current = None; award_category_current = None
TableStart(st) == [st EXCEPT !.outcome = None, !.category = None]

\* One iteration of the loop over the cells of a table.
CellStep(st, cell) ==
    IF st.exc # "" THEN st
    ELSE IF cell.class = "title_award_outcome"
    THEN [st EXCEPT !.outcome = Some(cell.b), !.category = Some(cell.span)]
    ELSE IF cell.class = "award_description"
    THEN LET lines == Split(cell.text, "\n")
         IN IF Len(lines) < 2 THEN [st EXCEPT !.exc = "IndexError"]
            ELSE IF Truthy(st.category)
            THEN [st EXCEPT !.awards = SetDefaultAppend(@, st.category[1],
                                                        <<Strip(lines[2]), st.outcome>>)]
            ELSE st
    ELSE [st EXCEPT !.exc = "Exception"]

RECURSIVE CellsLoop(_, _)
CellsLoop(st, cells) ==
    IF Len(cells) = 0 THEN st ELSE CellsLoop(CellStep(st, cells[1]), Tail(cells))

RECURSIVE TablesLoop(_, _)
TablesLoop(st, tables) ==
    IF Len(tables) = 0 \/ st.exc # "" THEN st
    ELSE TablesLoop(CellsLoop(TableStart(st), tables[1]), Tail(tables))

EmptyDict == [k \in {} |-> <<>>]

_parse_awards_from_soup(doc) ==
    LET st == TablesLoop([outcome |-> None, category |-> None, awards |-> EmptyDict, exc |-> ""],
                         doc.awards)
    IN IF st.exc # "" THEN Raise(st.exc) ELSE Ok(st.awards)

(* Numbers: an int n is IntNum(n); a float is its whole part and its thousandths. *)
IntNum(n) == [kind |-> "int", whole |-> n, milli |-> 0]
Float(w, m) == [kind |-> "float", whole |-> w, milli |-> m]

\* f * k for a float f and an int k
Times(f, k) == Float(f.whole * k + (f.milli * k) \div 1000, (f.milli * k) % 1000)

\* The first three decimals of a fraction, as thousandths.
Thousandths(frac) ==
    LET d == SubSeq(frac \o "000", 1, 3) IN DigitsVal(d)

\* float(s) for a decimal literal "digits[.digits]"; ValueError otherwise.
PyFloat(s) ==
    LET t == Strip(s)
        parts == Split(t, ".")
    IN IF Len(parts) = 1 /\ AllDigits(parts[1]) THEN Ok(Float(DigitsVal(parts[1]), 0))
       ELSE IF Len(parts) = 2 /\ AllDigits(parts[1]) /\ AllDigits(parts[2])
       THEN Ok(Float(DigitsVal(parts[1]), Thousandths(parts[2])))
       ELSE Raise("ValueError")

(* ParserRatingJson_parse.parse.  doc.ld_json: None when the document has no script of
   type application/ld+json, else what json.loads makes of its text: valid or
   not, and its aggregateRating entry (None: no such key). *)
ParserRatingJson_parse(doc) ==
    IF doc.ld_json = None THEN Raise("AttributeError")
    ELSE IF ~doc.ld_json[1].valid THEN Raise("JSONDecodeError")
    ELSE IF doc.ld_json[1].aggregateRating = None THEN Raise("KeyError")
    ELSE LET ratings_info == doc.ld_json[1].aggregateRating[1]
             rating_imdb == PyFloat(ratings_info.ratingValue)
         IN IF ~IsOk(rating_imdb) THEN rating_imdb
            ELSE Ok([rating_imdb |-> Some(rating_imdb.val),
                     rating_imdb_count |-> Some(IntNum(ratings_info.ratingCount))])

(* _parse_rating_from_soup.  doc.score_span and doc.total_div: the texts of the
   first elements whose class starts with AggregateRatingButton__RatingScore and
   __TotalRatingAmount; doc.ip_value and doc.ip_count: the texts of the spans
   with itemprop ratingValue and ratingCount; doc.hero: the div with data-testid
   hero-rating-bar__aggregate-rating__score, its text and the text of its second
   next sibling; None where the document has no such element. *)
Raws(rating, count) == Ok([rating_imdb_raw |-> rating, rating_imdb_count_raw |-> count])

\* The body of the inner try: the itemprop spans.
RatingByItemprop(doc) ==
    IF doc.ip_value = None THEN Raise("Exception")
    ELSE IF doc.ip_count = None THEN Raise("Exception")
    ELSE Raws(doc.ip_value, doc.ip_count)

\* The handler of AttributeError: the hero rating bar.
RatingByTestId(doc) ==
    IF doc.hero = None THEN Raws(None, None)
    ELSE IF doc.hero[1].sibling = None THEN Raise("AttributeError")
    ELSE Raws(Some(doc.hero[1].text), doc.hero[1].sibling)

\* The outer try and its IndexError handler.
RatingRaws(doc) ==
    IF doc.score_span # None /\ doc.total_div # None
    THEN Raws(doc.score_span, doc.total_div)
    ELSE LET inner == RatingByItemprop(doc)
         IN IF inner.exc = "AttributeError" THEN RatingByTestId(doc) ELSE inner

RatingValue(raw) ==
    LET numerator == IF Truthy(raw) /\ Contains(raw[1], "/") THEN Some(Split(raw[1], "/")[1])
                     ELSE raw
    IN IF Truthy(numerator)
       THEN LET f == PyFloat(numerator[1]) IN IF IsOk(f) THEN Ok(Some(f.val)) ELSE f
       ELSE Ok(None)

RatingCount(raw) ==
    IF ~Truthy(raw) THEN Ok(None)
    ELSE LET t == raw[1]
             cut == SubSeq(t, 1, Len(t) - 1)
         IN IF EndsWith(t, "K")
            THEN LET f == PyFloat(cut)
                 IN IF IsOk(f) THEN Ok(Some(Times(f.val, 1000))) ELSE f
            ELSE IF EndsWith(t, "M")
            THEN LET f == PyFloat(cut)
                 IN IF IsOk(f) THEN Ok(Some(Times(f.val, 1000 * 1000))) ELSE f
            ELSE LET n == PyInt(Replace(t, ",", ""))
                 IN IF IsOk(n) THEN Ok(Some(IntNum(n.val))) ELSE n

_parse_rating_from_soup(doc) ==
    LET json == ParserRatingJson_parse(doc)
    IN IF IsOk(json) THEN json
       ELSE LET raws == RatingRaws(doc)
            IN IF ~IsOk(raws) THEN raws
               ELSE LET rating_imdb == RatingValue(raws.val.rating_imdb_raw)
                        rating_imdb_count == RatingCount(raws.val.rating_imdb_count_raw)
                    IN IF ~IsOk(rating_imdb) THEN rating_imdb
                       ELSE IF ~IsOk(rating_imdb_count) THEN rating_imdb_count
                       ELSE Ok([rating_imdb |-> rating_imdb.val,
                                rating_imdb_count |-> rating_imdb_count.val])

(* _parse_genre_from_soup.  doc.genres: the anchors whose href starts with
   /search/title?genres, each with the text of its span child (None: no span)
   and its own text. *)
_parse_genre_from_soup(doc) ==
    LET genres_raw == doc.genres
    IN IF \A i \in 1..Len(genres_raw) : genres_raw[i].span # None
       THEN Ok({Strip(genres_raw[i].span[1]) : i \in 1..Len(genres_raw)})
       ELSE Ok({Strip(genres_raw[i].text) : i \in 1..Len(genres_raw)})

(* _parse_storyline_from_soup.  doc.summaries: the text of the first div with
   data-testid sub-section-summaries; doc.story_legacy: the text of
   div#titleStoryLine's div.p.span; doc.story_wrapper: the text of the div.div of
   the first div whose data-testid starts with storyline-plot-summary;
   doc.plot_list: the texts of the p elements of ul#plot-summaries-content. *)
RECURSIVE JoinWith(_, _)
JoinWith(ss, sep) ==
    IF Len(ss) = 0 THEN ""
    ELSE IF Len(ss) = 1 THEN ss[1]
    ELSE ss[1] \o sep \o JoinWith(Tail(ss), sep)

_parse_storyline_from_soup(doc) ==
    IF doc.summaries # None THEN Ok(doc.summaries[1])
    ELSE IF doc.story_legacy # None THEN Ok(Strip(doc.story_legacy[1]))
    ELSE IF doc.story_wrapper # None THEN Ok(Strip(doc.story_wrapper[1]))
    ELSE IF doc.plot_list # None THEN Ok(JoinWith(doc.plot_list[1], "; "))
    ELSE Raise("IndexError")

(* _parse_synopsis_from_soup.  doc.synopsis: the text of the div with data-testid
   sub-section-synopsis. *)
_parse_synopsis_from_soup(doc) ==
    LET synopsis == IF doc.synopsis = None THEN "" ELSE doc.synopsis[1]
    IN Ok(Strip(Replace(Replace(synopsis, "\n", ""), "\"", "")))

(* parse_webcontent_4_imdb_movie: the routines run in the order of the keyword
   arguments; the first exception ends the call. *)
FieldResults(doc) ==
    << _parse_titel_orig(doc), _parse_year_from_soup(doc), _parse_runtime_from_soup(doc),
       _parse_fsk_from_soup(doc),
       _parse_storyline_from_soup(doc), _parse_genre_from_soup(doc), _parse_credits_from_soup(doc), _parse_awards_from_soup(doc),
       _parse_rating_from_soup(doc), _parse_budget_from_soup(doc), _parse_synopsis_from_soup(doc) >>

parse_webcontent_4_imdb_movie(imdb_movie_id, doc) ==
    LET r == FirstRaise(FieldResults(doc))
    IN IF ~IsOk(r) THEN r
       ELSE Ok([imdb_movie_id |-> imdb_movie_id,
                title_orig |-> r.val[1], year |-> r.val[2], duration |-> r.val[3],
                fsk |-> r.val[4], storyline |-> r.val[5], genres |-> r.val[6],
                persons |-> r.val[7], awards |-> r.val[8], ratings |-> r.val[9],
                budget |-> r.val[10], synopsis |-> r.val[11]])

(***************************************************************************)
(* Inputs of the routines.                                                 *)
(***************************************************************************)
Years == {1999, 2020}
Decorations == {"(The Documentary)", "(Video 2019)"}

\* "Title (decoration)... (Year) trailing text"
YearDescriptors ==
    [title : {"X", "Bloodywood - Raj Against the Machine"},
     decor : SeqsUpTo(Decorations, MaxDecor),
     prefix : {"", "Video "},
     year : Years,
     trail : {"", " - IMDb"}]

RECURSIVE Joined(_)
Joined(ss) == IF Len(ss) = 0 THEN "" ELSE ss[1] \o " " \o Joined(Tail(ss))

Descriptor(d) ==
    d.title \o " " \o Joined(d.decor) \o "(" \o d.prefix \o Str(d.year) \o ")" \o d.trail

SpanTexts == {"(152 min)", "(90 min)", "Runtime", "2h 32m"}
RuntimeDocs == [spans : SeqsUpTo(SpanTexts, MaxSpans)]

LiItems ==
    { [testid |-> FALSE, pre |-> " ", a |-> Some("Germany:16"), post |-> " (bw) "],
      [testid |-> FALSE, pre |-> "", a |-> Some("Germany:12"), post |-> ""],
      [testid |-> TRUE, pre |-> "Germany", a |-> Some("16"), post |-> ""],
      [testid |-> TRUE, pre |-> "United States", a |-> Some("R"), post |-> ""],
      [testid |-> FALSE, pre |-> "", a |-> Some("Sweden:15"), post |-> ""] }
FskDocs == [li : SeqsUpTo(LiItems, MaxItems)]

BudgetTexts == {"$12,000,000 (estimated)", " €500,000 ", "DEM 3,500,000 (estimated)", ""}
BudgetDocs == [budget : {None, Some(None)} \cup {Some(Some(t)) : t \in BudgetTexts}]

MaxAnchors == 4
MaxCells == 3
MaxTables == 2

Hrefs == {"/name/nm0000288/?ref_=ttfc_fc_cl_i1", "/name/nm0005132/",
          "/title/tt0468569/characters/nm0000288"}
DirectorHrefs == {"/name/nm0634240/?ref_=ttfc_fc_dr1"}
CreditsDocs ==
    [credits : {None, Some(None)} \cup {Some(Some(a)) : a \in SeqsUpTo(Hrefs, MaxAnchors)},
     directors : {None} \cup {Some(a) : a \in SeqsUpTo(DirectorHrefs, 1)}]

OutcomeCell(b, span) == [class |-> "title_award_outcome", b |-> b, span |-> span, text |-> b \o span]
DescriptionCell(text) == [class |-> "award_description", b |-> "", span |-> "", text |-> text]
Cells ==
    { OutcomeCell("Won", "Oscar"), OutcomeCell("Nominated", "Saturn Award"),
      OutcomeCell("Won", ""),
      DescriptionCell("\n  Best Film \n"), DescriptionCell("\nBest Actor\nHeath Ledger"),
      [class |-> "award_year", b |-> "", span |-> "", text |-> "2009"] }

\* The cells c cut into tables after the positions of cuts.
RECURSIVE TablesOf(_, _, _)
TablesOf(c, cuts, from) ==
    IF from > Len(c) THEN <<>>
    ELSE LET later == {k \in cuts : k >= from}
             to == IF later = {} THEN Len(c) ELSE CHOOSE k \in later : \A j \in later : k <= j
         IN <<SubSeq(c, from, to)>> \o TablesOf(c, cuts, to + 1)

AwardsDocs ==
    { [awards |-> TablesOf(c, cuts, 1)] :
        <<c, cuts>> \in { x \in SeqsUpTo(Cells, MaxCells) \X SUBSET (1..(MaxCells - 1)) :
                             /\ x[2] \subseteq 1..(Len(x[1]) - 1)
                             /\ Cardinality(x[2]) < MaxTables } }

Absent(f) == {None} \cup {Some(x) : x \in f}
RatingDocs ==
    [ld_json : Absent({[valid |-> FALSE, aggregateRating |-> None],
                       [valid |-> TRUE, aggregateRating |-> None],
                       [valid |-> TRUE,
                        aggregateRating |-> Some([ratingValue |-> "9.0", ratingCount |-> 2700000])]}),
     score_span : Absent({"8.4/10"}), total_div : Absent({"1.2M"}),
     ip_value : Absent({"9.0"}), ip_count : Absent({"2,700,000"}),
     hero : Absent({[text |-> "7.5/10", sibling |-> Some("12K")]})]

\* Whole documents: each part either absent or as the page of a title shows it.
AssetDocs ==
    [og_title : {None, Some("The Dark Knight (2008) - IMDb"), Some("Batman (TV Series 1966-1968)")},
     spans : {<<>>, <<"(152 min)">>},
     li : {<<>>, <<[testid |-> TRUE, pre |-> "Germany", a |-> Some("16"), post |-> ""]>>},
     summaries : Absent({"When the menace known as the Joker wreaks havoc"}),
     story_legacy : {None}, story_wrapper : {None}, plot_list : {None},
     genres : {<<[span |-> Some(" Action "), text |-> " Action "]>>},
     credits : {Some(Some(<<"/name/nm0000288/", "/name/nm0000288/">>))},
     directors : {None},
     awards : {<<>>, <<<<OutcomeCell("Won", "Oscar"), DescriptionCell("\nBest Film\n")>>>>},
     ld_json : Absent({[valid |-> TRUE,
                        aggregateRating |-> Some([ratingValue |-> "9.0", ratingCount |-> 2700000])]}),
     score_span : {None}, total_div : {None}, ip_value : {None}, ip_count : {None},
     hero : {None},
     budget : {None, Some(Some("$185,000,000 (estimated)"))},
     synopsis : Absent({"\nThe movie begins with a gang of men.\n"})]

InitParse ==
    /\ op = "" /\ input = <<>> /\ out = <<>>
    /\ cache = [i \in Ids |-> NoFile] /\ web = 0 /\ pc = "idle" /\ call = NoCall
    /\ website_string = <<>> /\ reqs = <<>> /\ ret = NoRet /\ cache0 = cache
    /\ lastOK = [i \in Ids |-> None]

fetchVars == <<cache, web, pc, call, website_string, reqs, ret, cache0, lastOK>>

DoParseYear ==
    \E d \in YearDescriptors :
        /\ op = ""
        /\ op' = "_parse_year" /\ input' = d /\ out' = _parse_year(Descriptor(d))
        /\ UNCHANGED fetchVars

DoParseRuntime ==
    \E d \in RuntimeDocs :
        /\ op = ""
        /\ op' = "_parse_runtime_from_soup" /\ input' = d /\ out' = _parse_runtime_from_soup(d)
        /\ UNCHANGED fetchVars

DoParseFSK ==
    \E d \in FskDocs :
        /\ op = ""
        /\ op' = "_parse_fsk_from_soup" /\ input' = d /\ out' = _parse_fsk_from_soup(d)
        /\ UNCHANGED fetchVars

DoParseBudget ==
    \E d \in BudgetDocs :
        /\ op = ""
        /\ op' = "_parse_budget_from_soup" /\ input' = d /\ out' = _parse_budget_from_soup(d)
        /\ UNCHANGED fetchVars

DoParseCredits ==
    \E d \in CreditsDocs :
        /\ op = ""
        /\ op' = "_parse_credits_from_soup" /\ input' = d /\ out' = _parse_credits_from_soup(d)
        /\ UNCHANGED fetchVars

DoParseAwards ==
    \E d \in AwardsDocs :
        /\ op = ""
        /\ op' = "_parse_awards_from_soup" /\ input' = d /\ out' = _parse_awards_from_soup(d)
        /\ UNCHANGED fetchVars

DoParseRating ==
    \E d \in RatingDocs :
        /\ op = ""
        /\ op' = "_parse_rating_from_soup" /\ input' = d /\ out' = _parse_rating_from_soup(d)
        /\ UNCHANGED fetchVars

DoParseWebcontent ==
    \E imdb_movie_id \in Ids, d \in AssetDocs :
        /\ op = ""
        /\ op' = "parse_webcontent_4_imdb_movie"
        /\ input' = [imdb_movie_id |-> imdb_movie_id, doc |-> d]
        /\ out' = parse_webcontent_4_imdb_movie(imdb_movie_id, d)
        /\ UNCHANGED fetchVars

NextParse ==
    \/ DoParseYear
    \/ DoParseRuntime
    \/ DoParseFSK
    \/ DoParseBudget
    \/ DoParseCredits
    \/ DoParseAwards
    \/ DoParseRating
    \/ DoParseWebcontent

SpecParse == InitParse /\ [][NextParse]_vars

(***************************************************************************)
(* Claims about the extraction routines.                                   *)
(***************************************************************************)
\* C9: for a descriptor "Title (decoration)... (Year) trailing" whose last
\* parenthesis group holds a year, optionally prefixed by "Video ", _parse_year
\* returns that year as an integer.
C9_YearOfLastGroup ==
    op = "_parse_year" => IsOk(out) /\ out.val = input.year

\* A descriptor with two decorations, the second one holding another year.
C9_Witness ==
    /\ op = "_parse_year"
    /\ Len(input.decor) = 2 /\ input.decor[2] = "(Video 2019)"
    /\ input.prefix = "Video " /\ input.trail = " - IMDb"
    /\ out = Ok(2020)

\* C4: for a document without a span label matching "(<digits> min)",
\* _parse_runtime_from_soup returns None and raises nothing.
C4_RuntimeNoneWithoutMatch ==
    (op = "_parse_runtime_from_soup" /\ \A i \in 1..Len(input.spans) : ~MatchesRuntime(input.spans[i]))
        => IsOk(out) /\ out.val = None

\* The list items holding an anchor whose text is "Germany:N".
GermanyAnchors(li) ==
    {i \in 1..Len(li) : li[i].a # None /\ StartsWithAt(li[i].a[1], "Germany:", 1)}

\* C5: for a document with a list item holding an anchor of text "Germany:N",
\* _parse_fsk_from_soup returns the integer N; for a document without any
\* certificate entry for Germany it returns the sentinel 99.
C5_FskOfGermanyAnchor ==
    op = "_parse_fsk_from_soup" =>
        LET g == GermanyAnchors(input.li)
        IN IF g # {}
           THEN LET i == CHOOSE x \in g : \A y \in g : x <= y
                IN out = PyInt(Split(input.li[i].a[1], ":")[2])
           ELSE (\A i \in 1..Len(input.li) : ~Contains(RowText(input.li[i]), "Germany"))
                    => IsOk(out) /\ out.val = 99

\* C8: _parse_budget_from_soup returns None when the budget item is absent and when
\* what is left of its text is no integer literal, and that integer otherwise;
\* it raises in neither case.
C8_BudgetNoneOrInteger ==
    (op = "_parse_budget_from_soup" /\ (input.budget = None \/ input.budget[1] # None)) =>
        /\ IsOk(out)
        /\ IF input.budget = None THEN out.val = None
           ELSE LET n == BudgetInt(Strip(input.budget[1][1]))
                IN IF IsOk(n) THEN out.val = Some(n.val) ELSE out.val = None

\* The integer after "/name/nm" in a person-profile link.
RECURSIVE LeadingDigits(_)
LeadingDigits(t) ==
    IF Len(t) > 0 /\ IsDigit(CharAt(t, 1)) THEN CharAt(t, 1) \o LeadingDigits(SubSeq(t, 2, Len(t)))
    ELSE ""
PersonIdOf(href) ==
    LET i == FindFrom(href, "/name/nm", 1)
    IN DigitsVal(LeadingDigits(SubSeq(href, i + 8, Len(href))))

\* The person-profile anchors of the cast listing, <<>> without credits section or
\* cast listing.
CastAnchors(doc) ==
    IF doc.credits = None THEN <<>>
    ELSE IF doc.credits[1] = None THEN <<>>
    ELSE SelectSeq(doc.credits[1][1], MatchesName)

\* C6: the result of _parse_credits_from_soup has the key 'actor', whose value is
\* the person identifiers of the 1st, 3rd, 5th, ... (0-based: even-indexed)
\* person-profile anchor of the cast listing, in document order; without credits
\* section or cast listing it is the empty list, and nothing is raised.
C6_ActorsAreEvenIndexedAnchors ==
    op = "_parse_credits_from_soup" =>
        LET a == CastAnchors(input)
        IN /\ IsOk(out)
           /\ "actor" \in DOMAIN out.val
           /\ Len(out.val["actor"]) = (Len(a) + 1) \div 2
           /\ \A k \in 1..Len(out.val["actor"]) : out.val["actor"][k] = PersonIdOf(a[2 * k - 1])

\* A cast listing with a character link between the person links of two actors.
C6_Witness ==
    /\ op = "_parse_credits_from_soup"
    /\ input.credits = Some(Some(<<"/name/nm0000288/?ref_=ttfc_fc_cl_i1", "/name/nm0005132/",
                                   "/title/tt0468569/characters/nm0000288", "/name/nm0005132/">>))
    /\ out.val["actor"] = <<288, 5132>>

\* The description a description cell carries.
DescriptionOf(cell) == Strip(Split(cell.text, "\n")[2])

\* The outcome cells before cell i of a table.
OutcomesBefore(table, i) == {j \in 1..(i - 1) : table[j].class = "title_award_outcome"}

\* The description cells that follow, in their own table, an outcome cell, and
\* whose nearest such cell carries a non-empty category.
StorableCells(tables) ==
    {<<t, i>> \in UNION {{<<u, k>> : k \in 1..Len(tables[u])} : u \in 1..Len(tables)} :
        /\ tables[t][i].class = "award_description"
        /\ LET before == OutcomesBefore(tables[t], i)
           IN before # {} /\ tables[t][CHOOSE j \in before : \A k \in before : k <= j].span # ""}

RECURSIVE SumLen(_, _)
SumLen(f, keys) ==
    IF keys = {} THEN 0
    ELSE LET k == CHOOSE x \in keys : TRUE IN Len(f[k]) + SumLen(f, keys \ {k})

\* C7: every (description, outcome) pair _parse_awards_from_soup stores under a
\* category was read from a description cell that follows, inside the same table,
\* an outcome cell with that category and outcome; the pairs stored are as many as
\* the description cells that follow an outcome cell of their own table, so that a
\* description cell ahead of every outcome cell of its table is stored nowhere.
C7_AwardsStatePerTable ==
    (op = "_parse_awards_from_soup" /\ IsOk(out)) =>
        LET tables == input.awards
        IN /\ \A c \in DOMAIN out.val : \A n \in 1..Len(out.val[c]) :
                \E t \in 1..Len(tables) : \E i \in 1..Len(tables[t]) :
                    /\ tables[t][i].class = "award_description"
                    /\ DescriptionOf(tables[t][i]) = out.val[c][n][1]
                    /\ \E j \in OutcomesBefore(tables[t], i) :
                          tables[t][j].span = c /\ Some(tables[t][j].b) = out.val[c][n][2]
           /\ SumLen(out.val, DOMAIN out.val) = Cardinality(StorableCells(tables))

\* Two tables: the first stores an entry, the second starts with a description cell.
C7_Witness ==
    /\ op = "_parse_awards_from_soup" /\ IsOk(out)
    /\ Len(input.awards) = 2
    /\ input.awards[1] = <<OutcomeCell("Won", "Oscar"), DescriptionCell("\n  Best Film \n")>>
    /\ input.awards[2] = <<DescriptionCell("\nBest Actor\nHeath Ledger")>>
    /\ out.val = ("Oscar" :> <<<<"Best Film", Some("Won")>>>>)

\* C3: _parse_rating_from_soup hands over from a stage that finds nothing to the
\* next one, and for a document in which no stage finds anything it returns
\* {'rating_imdb': None, 'rating_imdb_count': None} and raises nothing.
C3_RatingAbsentWhenAllStagesFail ==
    (/\ op = "_parse_rating_from_soup"
     /\ ~IsOk(ParserRatingJson_parse(input))
     /\ input.score_span = None /\ input.total_div = None
     /\ input.ip_value = None /\ input.ip_count = None) =>
        /\ IsOk(out)
        /\ input.hero = None => out.val = [rating_imdb |-> None, rating_imdb_count |-> None]
        /\ input.hero # None => out.val.rating_imdb # None

\* The documented default of every optional field.
FieldDefaults ==
    << "", 0, None, 99, "", {}, "actor" :> <<>>, EmptyDict,
       [rating_imdb |-> None, rating_imdb_count |-> None], None, "" >>

\* C1: when title and year extraction succeed, parse_webcontent_4_imdb_movie
\* returns a record whatever the optional routines do: a routine that raised
\* leaves its field at the documented default, every other field holds its
\* routine's result.
C1_OptionalFailureDoesNotAbort ==
    (/\ op = "parse_webcontent_4_imdb_movie"
     /\ IsOk(_parse_titel_orig(input.doc)) /\ IsOk(_parse_year_from_soup(input.doc))) =>
        /\ IsOk(out)
        /\ LET r == FieldResults(input.doc)
               got == << out.val.title_orig, out.val.year, out.val.duration, out.val.fsk,
                         out.val.storyline, out.val.genres, out.val.persons, out.val.awards,
                         out.val.ratings, out.val.budget, out.val.synopsis >>
           IN \A f \in 1..Len(r) :
                got[f] = IF IsOk(r[f]) THEN r[f].val ELSE FieldDefaults[f]

(***************************************************************************)
(* Claims about get_webcontent_4_imdb_movie.                               *)
(***************************************************************************)
IsPrefix(s, t) == Len(s) <= Len(t) /\ SubSeq(t, 1, Len(s)) = s

\* The call found a non-empty cache file and was asked to use it.
Hit(c, id, use_cache) == use_cache /\ c[id].exists /\ c[id].data # <<>>

\* C2: a call with use_cache=True whose cache file exists and is non-empty issues no
\* request, leaves the cache as it was and returns the file's content; any other
\* call requests the main page and then the eight sub sites in their fixed order
\* (a call cut short by a failing request has requested a prefix of them).
C2_CacheHitElseRetrieval ==
    call.id \in Ids =>
        IF Hit(cache0, call.id, call.use_cache)
        THEN /\ reqs = <<>>
             /\ cache = cache0
             /\ ret.status # "raise"
             /\ ret.status = "ok" => ret.val = Decode(cache0[call.id].data)
        ELSE /\ IsPrefix(reqs, AllUrls(call.id))
             /\ pc \in {"write", "return"} => reqs = AllUrls(call.id)
             /\ ret.status = "ok" => reqs = AllUrls(call.id)

\* A cache hit on a file an earlier retrieval wrote has returned.
C2_Witness ==
    /\ pc = "idle" /\ ret.status = "ok"
    /\ Hit(cache0, call.id, call.use_cache)
    /\ Len(ret.val) = 3 * (Len(SUB_SITES) + 1)

\* C10: a completed retrieval, whatever use_cache, has overwritten the file of the
\* call's id (and no other) with the main page followed by the eight sub sites, which
\* is what the call returns; a call with use_cache=True that follows a successful
\* call of the same id with non-empty content returns that content without any
\* request; a call ended by a failing request leaves the cache unchanged.
C10_WriteThrough ==
    /\ (pc = "return" /\ reqs # <<>>) =>
          /\ website_string = Pages(call.id, Len(SUB_SITES), web)
          /\ cache[call.id] = File(website_string)
          /\ \A j \in Ids \ {call.id} : cache[j] = cache0[j]
    /\ (pc = "idle" /\ ret.status = "ok" /\ reqs # <<>>) =>
          ret.val = Decode(cache[call.id].data)
    /\ (pc = "return" /\ call.use_cache /\ lastOK[call.id] # None) =>
          (lastOK[call.id][1] # <<>> =>
              reqs = <<>> /\ Decode(website_string) = lastOK[call.id][1])
    /\ ret.status = "raise" => cache = cache0

\* A use_cache=True call about to return what an earlier retrieval of the same id
\* returned and stored.
C10_Witness ==
    /\ pc = "return" /\ call.use_cache /\ reqs = <<>>
    /\ lastOK[call.id] # None
    /\ Len(website_string) = 4 * (Len(SUB_SITES) + 1)

====
